---- MODULE Spec2Model ----
(***************************************************************************)
(* url_scraper of notebooks/def_url_scraper.py: credential check, browser  *)
(* session, login sequence, and the scroll / snapshot / parse / merge /    *)
(* stall-check loop, with the try/finally that quits the driver.           *)
(*                                                                         *)
(* Python strings are sequences of tokens; the three markers the code      *)
(* searches for ("/status/", "http", "#", "@") are tokens of their own, so *)
(* `marker in s` is token membership and f-string / join concatenation is  *)
(* \o.  A Python value that may be None is a set: {} is None, {v} is v.    *)
(***************************************************************************)
EXTENDS Integers, Sequences, FiniteSets, TLC

\* ---------------------------------------------------------------- bounds
MaxFragments == 2
MaxTime == 75
MaxLoads == 2
MaxFailPass == 3

\* ------------------------------------------------------ program constants
SCROLL_PAUSE_TIME == 5
max_wait_time == 60

None == {}
Some(v) == {v}
Value(o) == CHOOSE v \in o : TRUE

Range(s) == {s[i] : i \in DOMAIN s}
Contains(s, marker) == marker \in Range(s)

Origin == <<"http", "s://x.com">>
Unknown == <<"Unknown">>
Separator == <<", ">>
Space == " "
Columns0 == <<"Tweet URL", "Created At", "Text">>
RowColumns ==
  <<"Tweet URL", "Created At", "Text", "Tweet ID", "Likes", "Retweets",
    "Replies", "Hashtags", "Mentions", "URLs">>

\* ------------------------------------------------------------ text helpers
RECURSIVE LStrip(_)
LStrip(s) == IF s # <<>> /\ Head(s) = Space THEN LStrip(Tail(s)) ELSE s

RECURSIVE RStrip(_)
RStrip(s) ==
  IF s # <<>> /\ s[Len(s)] = Space THEN RStrip(SubSeq(s, 1, Len(s) - 1)) ELSE s

\* tag.get_text(strip=True)
GetTextStrip(s) == RStrip(LStrip(s))

\* ", ".join(list)
RECURSIVE Join(_)
Join(list) ==
  IF list = <<>> THEN <<>>
  ELSE IF Len(list) = 1 THEN list[1]
  ELSE list[1] \o Separator \o Join(Tail(list))

\* --------------------------------------------------------------- fragments
\* An <article>: its <a> elements in document order, its <time> element, its
\* data-tweet-id attribute, the like / retweet / reply divs, the first div
\* carrying a lang attribute.
Anchor(href, text) == [href |-> href, text |-> text]

RelHref1 == <<"/a", "/status/", "1">>
AbsHref1 == Origin \o RelHref1

PermalinkRel == Anchor(Some(RelHref1), <<"5h">>)
PermalinkAbs == Anchor(Some(AbsHref1), <<"6h">>)
HashtagAnchor == Anchor(Some(<<"/hashtag/x">>), <<"#", "x", Space>>)
MentionAnchor == Anchor(Some(<<"/bob">>), <<"@", "bob">>)
ExternalAnchor == Anchor(Some(<<"http", "://t.co/x">>), <<"t.co/x">>)
NamedAnchor == Anchor(None, <<"top">>)

\* every source element present, relative permalink
FragFull ==
  [anchors |-> <<NamedAnchor, PermalinkRel, HashtagAnchor, MentionAnchor,
                 ExternalAnchor>>,
   time |-> Some([datetime |-> Some(<<"2024-01-01">>)]),
   data_tweet_id |-> Some(<<"id1">>),
   like |-> Some(<<"1.2K">>), retweet |-> Some(<<"3">>),
   reply |-> Some(<<Space, "0">>),
   lang_div |-> Some(<<"hello">>)]

\* the same post, every optional source element missing
FragBare ==
  [anchors |-> <<PermalinkRel>>, time |-> None, data_tweet_id |-> None,
   like |-> None, retweet |-> None, reply |-> None, lang_div |-> None]

\* the same post, <time> element without a datetime attribute
FragNoDatetime ==
  [anchors |-> <<PermalinkRel>>, time |-> Some([datetime |-> None]),
   data_tweet_id |-> None,
   like |-> Some(<<"7">>), retweet |-> None, reply |-> None,
   lang_div |-> Some(<<"later">>)]

\* a post whose permalink anchor carries an absolute target
FragAbsolute ==
  [anchors |-> <<PermalinkAbs>>, time |-> Some([datetime |-> Some(<<"2024-01-02">>)]),
   data_tweet_id |-> None,
   like |-> None, retweet |-> None, reply |-> None,
   lang_div |-> Some(<<"abs">>)]

\* an article with no permalink anchor
FragNoPermalink ==
  [anchors |-> <<MentionAnchor>>, time |-> None, data_tweet_id |-> None,
   like |-> None, retweet |-> None, reply |-> None,
   lang_div |-> Some(<<"hello">>)]

Fragments == {FragFull, FragBare, FragNoDatetime, FragAbsolute, FragNoPermalink}

\* the pages driver.page_source can show: up to MaxFragments articles
Snapshots == UNION {[1..n -> Fragments] : n \in 0..MaxFragments}

\* ------------------------------------------------- field extraction (115-172)
\* tweet.find("a", href=lambda href: href and "/status/" in href)
StatusAnchors(tweet) ==
  SelectSeq(tweet.anchors,
            LAMBDA a : a.href # None /\ Value(a.href) # <<>>
                       /\ Contains(Value(a.href), "/status/"))

tweet_link_tag(tweet) ==
  IF StatusAnchors(tweet) = <<>> THEN None ELSE Some(Head(StatusAnchors(tweet)))

\* f"https://x.com{tweet_link_tag['href']}" if tweet_link_tag else None
tweet_url(tweet) ==
  IF tweet_link_tag(tweet) # None
  THEN Some(Origin \o Value(Value(tweet_link_tag(tweet)).href))
  ELSE None

\* date_tag["datetime"] raises KeyError when the attribute is absent
CreatedAtRaises(tweet) == tweet.time # None /\ Value(tweet.time).datetime = None

created_at(tweet) ==
  IF tweet.time # None THEN Value(Value(tweet.time).datetime) ELSE Unknown

\* tweet.get("data-tweet-id", "Unknown")
tweet_id(tweet) ==
  IF tweet.data_tweet_id # None THEN Value(tweet.data_tweet_id) ELSE Unknown

\* X_tag.get_text(strip=True) if X_tag else "Unknown"
TagText(tag) == IF tag # None THEN GetTextStrip(Value(tag)) ELSE Unknown

likes(tweet) == TagText(tweet.like)
retweets(tweet) == TagText(tweet.retweet)
replies(tweet) == TagText(tweet.reply)
tweet_text(tweet) == TagText(tweet.lang_div)

RECURSIVE MapText(_)
MapText(as) ==
  IF as = <<>> THEN <<>> ELSE <<GetTextStrip(Head(as).text)>> \o MapText(Tail(as))

RECURSIVE MapHref(_)
MapHref(as) ==
  IF as = <<>> THEN <<>> ELSE <<Value(Head(as).href)>> \o MapHref(Tail(as))

hashtags(tweet) ==
  MapText(SelectSeq(tweet.anchors, LAMBDA a : Contains(a.text, "#")))

mentions(tweet) ==
  MapText(SelectSeq(tweet.anchors, LAMBDA a : Contains(a.text, "@")))

\* tag.get("href", "Unknown") for tags with "http" in tag.get("href", "")
urls(tweet) ==
  MapHref(SelectSeq(tweet.anchors,
                    LAMBDA a : a.href # None /\ Contains(Value(a.href), "http")))

\* the try body raises (and the except at 190 skips the article)
ExtractionRaises(tweet) == CreatedAtRaises(tweet)

\* the dict appended at 176-189
Row(tweet) ==
  ("Tweet URL" :> tweet_url(tweet)) @@ ("Created At" :> created_at(tweet)) @@
  ("Text" :> tweet_text(tweet)) @@ ("Tweet ID" :> tweet_id(tweet)) @@
  ("Likes" :> likes(tweet)) @@ ("Retweets" :> retweets(tweet)) @@
  ("Replies" :> replies(tweet)) @@ ("Hashtags" :> Join(hashtags(tweet))) @@
  ("Mentions" :> Join(mentions(tweet))) @@ ("URLs" :> Join(urls(tweet)))

\* ------------------------------------------------------------ the DataFrame
\* pd.DataFrame(columns=["Tweet URL", "Created At", "Text"])
EmptyFrame == [columns |-> Columns0, rows |-> <<>>]

\* tweet_df["Tweet URL"].values
UrlValues(df) == {df.rows[i]["Tweet URL"] : i \in DOMAIN df.rows}

AppendConditionNoNullCheck(url, df) == url \notin UrlValues(df)

\* if tweet_url and tweet_url not in tweet_df["Tweet URL"].values
AppendCondition(url, df) == url # None /\ url \notin UrlValues(df)

\* the for loop 115-192: tweet_df is not reassigned inside it
\* what the try body of 116-172 computes for each article (a table, so that
\* it is evaluated once per article)
Extracted ==
  [t \in Fragments |->
     [raises |-> ExtractionRaises(t), url |-> tweet_url(t),
      row |-> IF ExtractionRaises(t) THEN <<>> ELSE Row(t)]]

AfterExtractionErrorBreak(rest) == <<>>

\* lines 190-192: the except prints and continues with the articles left
AfterExtractionError(rest) == rest

RECURSIVE new_tweet_data(_, _)
new_tweet_data(tweets, df) ==
  IF tweets = <<>> THEN <<>>
  ELSE IF Extracted[Head(tweets)].raises
       THEN AfterExtractionError(new_tweet_data(Tail(tweets), df))
       ELSE (IF AppendCondition(Extracted[Head(tweets)].url, df)
             THEN <<Extracted[Head(tweets)].row>>
             ELSE <<>>)
            \o new_tweet_data(Tail(tweets), df)

RECURSIVE UnionColumns(_, _)
UnionColumns(cols, more) ==
  IF more = <<>> THEN cols
  ELSE UnionColumns(IF Head(more) \in Range(cols) THEN cols
                    ELSE Append(cols, Head(more)), Tail(more))

ConcatNewFirst(df, new_rows) ==
  [columns |-> UnionColumns(df.columns, RowColumns), rows |-> new_rows \o df.rows]

\* pd.concat([tweet_df, new_tweet_df], ignore_index=True)
Concat(df, new_rows) ==
  [columns |-> UnionColumns(df.columns, RowColumns), rows |-> df.rows \o new_rows]

\* lines 195-199
Merge(df, new_rows) == IF new_rows # <<>> THEN Concat(df, new_rows) ELSE df

StallBreakOr(len, prev, elapsed) == len = prev \/ elapsed >= max_wait_time

\* lines 202-208
StallBreak(len, prev, elapsed) == len = prev /\ elapsed >= max_wait_time
NextStartTimeAlways(len, prev, start, t) == t
NextStartTimeNever(len, prev, start, t) == start
NextStartTime(len, prev, start, t) == IF len = prev THEN start ELSE t

NextPrevCountStale(len, prev) == prev

\* line 210
NextPrevCount(len, prev) == len

\* ------------------------------------------------------------------ state
VARIABLES
  pc,                \* position in url_scraper
  EMAIL, USERNAME, PASSWORD,   \* os.getenv results (None, "" or a value)
  driver,            \* "none", "open" or "quit"
  quit_calls,        \* number of driver.quit() calls
  step,              \* index of the current login / navigation step
  tweet_df, prev_tweets_count, start_time,
  now,               \* time.time(), counted from the read at line 103
  tweets,            \* the articles of the markup last parsed (line 112)
  exc,               \* the exception in flight: None or Some(name of the call)
  result,            \* the returned DataFrame: None or Some(tweet_df)
  calls,             \* session commands issued so far
  first,             \* history: the first snapshot, when, and whether every
                     \* later snapshot was identical to it
  seen               \* history: permalink urls in order of first observation

vars ==
  <<pc, EMAIL, USERNAME, PASSWORD, driver, quit_calls, step, tweet_df,
    prev_tweets_count, start_time, now, tweets, exc, result, calls,
    first, seen>>

EnvValues == {None, Some(<<>>), Some(<<"secret">>)}

\* `not X` for an os.getenv result
Falsy(v) == v = None \/ Value(v) = <<>>

CredentialsAllMissing(e, u, p) == Falsy(e) /\ Falsy(u) /\ Falsy(p)

\* line 43: not EMAIL or not USERNAME or not PASSWORD
CredentialsMissing(e, u, p) == Falsy(e) \/ Falsy(u) \/ Falsy(p)

LoginSteps ==
  <<"get_login", "wait_text", "send_email", "wait_second", "send_username",
    "wait_password", "send_password", "get_target", "wait_articles">>

\* the steps inside the inner try/except of lines 65-73
InSecondPrompt(i) == LoginSteps[i] \in {"wait_second", "send_username"}
AfterSecondPrompt == 6

\* driver.get calls among the login steps
IsNavigation(i) == LoginSteps[i] \in {"get_login", "get_target"}

AfterRaiseRetry(at) == IF at = "loop" THEN "loop" ELSE "finally"

\* where a raise inside the outer try (50-212) goes: the finally clause
AfterRaise(at) == "finally"

QuitTwice(n, inflight) == n + 2
QuitOnReturnOnly(n, inflight) == IF inflight = None THEN n + 1 ELSE n

\* the finally clause (214-215): driver.quit() whatever is in flight
Quit(n, inflight) == n + 1

Init ==
  /\ pc = "start"
  /\ EMAIL \in EnvValues /\ USERNAME \in EnvValues /\ PASSWORD \in EnvValues
  /\ driver = "none" /\ quit_calls = 0 /\ step = 0
  /\ tweet_df = EmptyFrame /\ prev_tweets_count = 0 /\ start_time = 0
  /\ now = 0 /\ tweets = <<>>
  /\ exc = None /\ result = None
  /\ calls = [get |-> 0, scroll |-> 0, page_source |-> 0]
  /\ first = [taken |-> FALSE, same |-> TRUE, snap |-> <<>>, time |-> 0]
  /\ seen = <<>>

\* lines 38-44
CheckCredentials ==
  /\ pc = "start"
  /\ IF CredentialsMissing(EMAIL, USERNAME, PASSWORD)
     THEN pc' = "raised" /\ exc' = Some("ValueError")
     ELSE pc' = "create_driver" /\ exc' = exc
  /\ UNCHANGED <<EMAIL, USERNAME, PASSWORD, driver, quit_calls, step, tweet_df,
                 prev_tweets_count, start_time, now, tweets, result,
                 calls, first, seen>>

\* lines 47-48, the driver starts
CreateDriver ==
  /\ pc = "create_driver"
  /\ driver' = "open" /\ pc' = "login" /\ step' = 1
  /\ UNCHANGED <<EMAIL, USERNAME, PASSWORD, quit_calls, tweet_df,
                 prev_tweets_count, start_time, now, tweets, exc, result,
                 calls, first, seen>>

\* lines 47-48, the driver manager or the browser fails to start
CreateDriverFails ==
  /\ pc = "create_driver"
  /\ pc' = "raised" /\ exc' = Some("webdriver")
  /\ UNCHANGED <<EMAIL, USERNAME, PASSWORD, driver, quit_calls, step, tweet_df,
                 prev_tweets_count, start_time, now, tweets, result,
                 calls, first, seen>>

\* one step of lines 52-94 succeeds
LoginStep ==
  /\ pc = "login"
  /\ calls' = IF IsNavigation(step) THEN [calls EXCEPT !.get = @ + 1] ELSE calls
  /\ IF step = Len(LoginSteps)
     THEN pc' = "init_loop" /\ step' = step
     ELSE pc' = pc /\ step' = step + 1
  /\ UNCHANGED <<EMAIL, USERNAME, PASSWORD, driver, quit_calls, tweet_df,
                 prev_tweets_count, start_time, now, tweets, exc, result,
                 first, seen>>

\* one step of lines 52-94 raises: absorbed by the bare except of 72 inside
\* the second-prompt block, in flight to the finally clause anywhere else
LoginStepFails ==
  /\ pc = "login"
  /\ calls' = IF IsNavigation(step) THEN [calls EXCEPT !.get = @ + 1] ELSE calls
  /\ IF InSecondPrompt(step)
     THEN pc' = pc /\ step' = AfterSecondPrompt /\ exc' = exc
     ELSE pc' = AfterRaise(pc) /\ step' = step /\ exc' = Some(LoginSteps[step])
  /\ UNCHANGED <<EMAIL, USERNAME, PASSWORD, driver, quit_calls, tweet_df,
                 prev_tweets_count, start_time, now, tweets, result,
                 first, seen>>

\* lines 96-103
InitLoop ==
  /\ pc = "init_loop"
  /\ tweet_df' = EmptyFrame /\ prev_tweets_count' = 0 /\ start_time' = now
  /\ pc' = "loop"
  /\ UNCHANGED <<EMAIL, USERNAME, PASSWORD, driver, quit_calls, step, now,
                 tweets, exc, result, calls, first, seen>>

\* the markup the n-th read can return: the feed loads new articles during
\* the first MaxLoads passes of the loop and is static afterwards
Loadable(n, current) == IF n < MaxLoads THEN Snapshots ELSE {current}

\* the passes in which the session or the parser can fail: the first
\* MaxFailPass ones
CanFail(n) == n < MaxFailPass

\* history: the first snapshot and whether every later one was identical
NoteSnapshot(f, s, t) ==
  IF ~f.taken THEN [taken |-> TRUE, same |-> TRUE, snap |-> s, time |-> t]
  ELSE IF f.same /\ s = f.snap THEN f
  ELSE [taken |-> TRUE, same |-> FALSE, snap |-> <<>>, time |-> 0]

\* history: urls in order of first observation (iteration order, then
\* article order in the snapshot)
RECURSIVE Observe(_, _)
Observe(order, articles) ==
  IF articles = <<>> THEN order
  ELSE LET u == Extracted[Head(articles)].url
       IN Observe(IF u = None \/ (\E k \in DOMAIN order : order[k] = u)
                  THEN order ELSE Append(order, u),
                  Tail(articles))

\* one pass of the loop body, lines 106-210: scroll, pause, read the markup,
\* parse, extract, merge, stall check
Iteration ==
  /\ pc = "loop"
  /\ now + SCROLL_PAUSE_TIME <= MaxTime
  /\ calls' = [calls EXCEPT !.scroll = @ + 1, !.page_source = @ + 1]
  /\ now' = now + SCROLL_PAUSE_TIME
  /\ \E s \in Loadable(calls.page_source, tweets) :
       LET merged == Merge(tweet_df, new_tweet_data(s, tweet_df))
           len == Len(merged.rows)
       IN /\ tweets' = s
          /\ first' = NoteSnapshot(first, s, now')
          /\ seen' = Observe(seen, s)
          /\ tweet_df' = merged
          /\ IF StallBreak(len, prev_tweets_count, now' - start_time)
             THEN /\ result' = Some(merged)
                  /\ pc' = "finally"
                  /\ UNCHANGED <<start_time, prev_tweets_count>>
             ELSE /\ start_time' =
                       NextStartTime(len, prev_tweets_count, start_time, now')
                  /\ prev_tweets_count' = NextPrevCount(len, prev_tweets_count)
                  /\ pc' = pc
                  /\ result' = result
  /\ UNCHANGED <<EMAIL, USERNAME, PASSWORD, driver, quit_calls, step, exc>>

\* line 107 raises
ScrollFails ==
  /\ pc = "loop"
  /\ now + SCROLL_PAUSE_TIME <= MaxTime
  /\ CanFail(calls.scroll)
  /\ calls' = [calls EXCEPT !.scroll = @ + 1]
  /\ exc' = Some("execute_script")
  /\ pc' = AfterRaise(pc)
  /\ UNCHANGED <<EMAIL, USERNAME, PASSWORD, driver, quit_calls, step, tweet_df,
                 prev_tweets_count, start_time, now, tweets, result,
                 first, seen>>

\* lines 107-111: the scroll and the pause pass, the read of page_source raises
SnapshotFails ==
  /\ pc = "loop"
  /\ now + SCROLL_PAUSE_TIME <= MaxTime
  /\ CanFail(calls.scroll)
  /\ calls' = [calls EXCEPT !.scroll = @ + 1, !.page_source = @ + 1]
  /\ now' = now + SCROLL_PAUSE_TIME
  /\ exc' = Some("page_source")
  /\ pc' = AfterRaise(pc)
  /\ UNCHANGED <<EMAIL, USERNAME, PASSWORD, driver, quit_calls, step, tweet_df,
                 prev_tweets_count, start_time, tweets, result,
                 first, seen>>

\* lines 107-112: the markup is read, then the parser raises
ParseFails ==
  /\ pc = "loop"
  /\ now + SCROLL_PAUSE_TIME <= MaxTime
  /\ CanFail(calls.scroll)
  /\ calls' = [calls EXCEPT !.scroll = @ + 1, !.page_source = @ + 1]
  /\ now' = now + SCROLL_PAUSE_TIME
  /\ exc' = Some("BeautifulSoup")
  /\ pc' = AfterRaise(pc)
  /\ UNCHANGED <<EMAIL, USERNAME, PASSWORD, driver, quit_calls, step, tweet_df,
                 prev_tweets_count, start_time, tweets, result, first, seen>>

\* lines 214-215, then the return or the re-raise
Finally ==
  /\ pc = "finally"
  /\ quit_calls' = Quit(quit_calls, exc)
  /\ driver' = IF quit_calls' > quit_calls THEN "quit" ELSE driver
  /\ pc' = IF exc = None THEN "returned" ELSE "raised"
  /\ UNCHANGED <<EMAIL, USERNAME, PASSWORD, step, tweet_df, prev_tweets_count,
                 start_time, now, tweets, exc, result, calls, first, seen>>

Next ==
  \/ CheckCredentials
  \/ CreateDriver
  \/ CreateDriverFails
  \/ LoginStep
  \/ LoginStepFails
  \/ InitLoop
  \/ Iteration
  \/ ScrollFails
  \/ SnapshotFails
  \/ ParseFails
  \/ Finally

Spec == Init /\ [][Next]_vars

\* the interpreter always runs the next statement of the single thread
FairSpec == Spec /\ WF_vars(Next)

\* ------------------------------------------------------------- claim helpers
Rows == tweet_df.rows
UrlOf(i) == Rows[i]["Tweet URL"]
IsPrefix(a, b) == Len(a) <= Len(b) /\ SubSeq(b, 1, Len(a)) = a
Pos(order, u) == CHOOSE k \in DOMAIN order : order[k] = u
Done == pc \in {"returned", "raised"}
SessionFailures == {Some("execute_script"), Some("page_source")}

NoDuplicateUrls(df) ==
  \A i, j \in DOMAIN df.rows :
    i # j => df.rows[i]["Tweet URL"] # df.rows[j]["Tweet URL"]

\* the step is a completed pass of the loop (the only step that advances the
\* clock and leaves no exception in flight)
PassCompleted == pc = "loop" /\ now' # now /\ exc' = None

\* C1: after every merge, and in the returned DataFrame, no two records have
\* the same Tweet URL.
DedupInvariant ==
  /\ NoDuplicateUrls(tweet_df)
  /\ result # None => NoDuplicateUrls(Value(result))

\* C2: while every snapshot equals the first one, the loop is not running at
\* or beyond stallTimeout + scrollPause after the first snapshot; it returns
\* within that bound, and it returns the records of the first snapshot.
StallTermination ==
  (first.taken /\ first.same) =>
    /\ pc = "loop" => now - first.time < max_wait_time + SCROLL_PAUSE_TIME
    /\ result # None =>
         /\ now - first.time <= max_wait_time + SCROLL_PAUSE_TIME
         /\ Value(result).rows = new_tweet_data(first.snap, EmptyFrame)

StallTerminationWitness ==
  /\ pc = "returned" /\ first.taken /\ first.same
  /\ result # None /\ Value(result).rows # <<>>
  /\ calls.page_source > 2

\* C3: once url_scraper has left (return or raise) with a driver created,
\* driver.quit() has been called.
GuaranteedRelease ==
  (Done /\ driver # "none") => (quit_calls >= 1 /\ driver = "quit")

GuaranteedReleaseWitness ==
  /\ pc = "raised" /\ driver = "quit" /\ quit_calls = 1
  /\ exc = Some("BeautifulSoup") /\ Rows # <<>>

\* the record the isolation rule asks for: the failing field defaulted
IsolatedRow(tweet) ==
  ("Tweet URL" :> tweet_url(tweet)) @@
  ("Created At" :> (IF CreatedAtRaises(tweet) THEN Unknown ELSE created_at(tweet))) @@
  ("Text" :> tweet_text(tweet)) @@ ("Tweet ID" :> tweet_id(tweet)) @@
  ("Likes" :> likes(tweet)) @@ ("Retweets" :> retweets(tweet)) @@
  ("Replies" :> replies(tweet)) @@ ("Hashtags" :> Join(hashtags(tweet))) @@
  ("Mentions" :> Join(mentions(tweet))) @@ ("URLs" :> Join(urls(tweet)))

\* C4: an article whose extraction raises in a field other than the url, and
\* whose url is resolvable and new, yields its record with the failing field
\* defaulted.
Isolation ==
  [][PassCompleted =>
       \A i \in DOMAIN tweets' :
         (/\ tweet_url(tweets'[i]) # None
          /\ ExtractionRaises(tweets'[i])
          /\ tweet_url(tweets'[i]) \notin UrlValues(tweet_df))
         => \E j \in DOMAIN tweet_df'.rows :
              tweet_df'.rows[j] = IsolatedRow(tweets'[i])]_vars

\* C5: records are in the order in which their url was first observed.
OrderPreservation ==
  \A i, j \in DOMAIN Rows :
    i < j => Pos(seen, UrlOf(i)) <= Pos(seen, UrlOf(j))

\* C6: the rows before any step are a prefix of the rows after it.
MonotonicGrowth == [][IsPrefix(tweet_df.rows, tweet_df'.rows)]_vars

\* a merged snapshot showed a stored url with different content
MonotonicGrowthWitness ==
  /\ calls.page_source >= 2
  /\ \E i \in DOMAIN tweets, j \in DOMAIN Rows :
       /\ ~ExtractionRaises(tweets[i])
       /\ UrlOf(j) = tweet_url(tweets[i])
       /\ Rows[j] # Row(tweets[i])

IsAbsolute(href) == href # <<>> /\ Head(href) = "http"

\* C7: relative target: origin followed by the target; absolute target: the
\* target unchanged; no permalink anchor: null.
UrlResolution ==
  \A i \in DOMAIN tweets :
    LET tag == tweet_link_tag(tweets[i])
    IN IF tag = None THEN tweet_url(tweets[i]) = None
       ELSE LET href == Value(Value(tag).href)
            IN tweet_url(tweets[i]) =
                 (IF IsAbsolute(href) THEN Some(href) ELSE Some(Origin \o href))

WithPermalink(articles) ==
  SelectSeq(articles, LAMBDA t : Extracted[t].url # None)

\* C8: no row has a null url, and a pass merges exactly what it would merge
\* with the articles that have no permalink removed from the snapshot.
NoPermalinkDrop ==
  /\ [](\A i \in DOMAIN Rows : UrlOf(i) # None)
  /\ [][PassCompleted =>
          tweet_df' = Merge(tweet_df,
                            new_tweet_data(WithPermalink(tweets'), tweet_df))]_vars

NoPermalinkDropWitness ==
  /\ Len(tweets) = 2
  /\ tweet_link_tag(tweets[1]) = None
  /\ tweet_link_tag(tweets[2]) # None
  /\ calls.page_source = 1
  /\ Rows = <<Row(tweets[2])>>

\* C9: an article with a permalink yields a record, and every field whose
\* source element is missing holds "Unknown" (the empty string for hashtags,
\* mentions and links).
FallbackCompleteness ==
  \A i \in DOMAIN tweets :
    LET t == tweets[i]
    IN tweet_link_tag(t) # None =>
         /\ ~ExtractionRaises(t)
         /\ t.time = None => Row(t)["Created At"] = Unknown
         /\ t.data_tweet_id = None => Row(t)["Tweet ID"] = Unknown
         /\ t.like = None => Row(t)["Likes"] = Unknown
         /\ t.retweet = None => Row(t)["Retweets"] = Unknown
         /\ t.reply = None => Row(t)["Replies"] = Unknown
         /\ t.lang_div = None => Row(t)["Text"] = Unknown
         /\ (\A k \in DOMAIN t.anchors : ~Contains(t.anchors[k].text, "#"))
              => Row(t)["Hashtags"] = <<>>
         /\ (\A k \in DOMAIN t.anchors : ~Contains(t.anchors[k].text, "@"))
              => Row(t)["Mentions"] = <<>>
         /\ (\A k \in DOMAIN t.anchors :
               t.anchors[k].href = None
               \/ ~Contains(Value(t.anchors[k].href), "http"))
              => Row(t)["URLs"] = <<>>

\* C10: after the scroll command or the snapshot read has failed, no session
\* command is issued, nothing is returned, and the failure reaches the caller
\* only after driver.quit().
SessionFailureFatal ==
  /\ [](exc \in SessionFailures =>
          /\ result = None /\ pc \in {"finally", "raised"}
          /\ pc = "raised" => quit_calls = 1)
  /\ [][(exc \in SessionFailures) => (calls' = calls /\ exc' = exc)]_vars

SessionFailureFatalWitness ==
  /\ pc = "raised" /\ exc = Some("page_source")
  /\ calls.scroll >= 2 /\ Rows # <<>> /\ quit_calls = 1

\* C11: every returned DataFrame has exactly the ten columns.
ReturnedColumns == result # None => Value(result).columns = RowColumns

MissingOrEmpty(v) == v = None \/ v = Some(<<>>)

\* C12: with a credential missing or empty, url_scraper raises at once: no
\* driver, no navigation, scroll or snapshot, no driver.quit().
ConfigurationError ==
  (MissingOrEmpty(EMAIL) \/ MissingOrEmpty(USERNAME) \/ MissingOrEmpty(PASSWORD))
  => /\ pc \in {"start", "raised"}
     /\ pc = "raised" => exc = Some("ValueError")
     /\ driver = "none" /\ quit_calls = 0 /\ result = None
     /\ calls = [get |-> 0, scroll |-> 0, page_source |-> 0]

ConfigurationErrorWitness ==
  /\ pc = "raised" /\ exc = Some("ValueError")
  /\ ~MissingOrEmpty(EMAIL) /\ USERNAME = Some(<<>>) /\ ~MissingOrEmpty(PASSWORD)

\* the step read and parsed a snapshot and ran the rest of the pass
PassRan ==
  /\ pc = "loop" /\ now' # now
  /\ exc' \notin {Some("page_source"), Some("BeautifulSoup")}

\* C13: a pass returns only when it appended nothing and at least
\* max_wait_time has passed since start_time; it goes on when it appended a
\* record or when less time has passed; at the start of every pass
\* prev_tweets_count is the number of rows.
StallExit ==
  /\ [](pc = "loop" => prev_tweets_count = Len(Rows))
  /\ [][PassRan =>
          /\ pc' \in {"loop", "finally"}
          /\ pc' = "finally" =>
               /\ result' = Some(tweet_df')
               /\ Len(tweet_df'.rows) = Len(tweet_df.rows)
               /\ now' - start_time >= max_wait_time
          /\ Len(tweet_df'.rows) > Len(tweet_df.rows) => pc' = "loop"
          /\ (Len(tweet_df'.rows) = Len(tweet_df.rows)
              /\ now' - start_time < max_wait_time) => pc' = "loop"]_vars

\* returned after a pass that appended, a later pass that did not, and a
\* full stall window
StallExitWitness ==
  /\ pc = "returned" /\ result # None
  /\ Rows # <<>> /\ start_time = 2 * SCROLL_PAUSE_TIME
  /\ now - start_time = max_wait_time

\* C14: start_time becomes the current time in the passes that append a
\* record, and only in those.
StallTimerReset ==
  [][PassRan =>
       start_time' = (IF Len(tweet_df'.rows) > Len(tweet_df.rows)
                      THEN now' ELSE start_time)]_vars

\* a second pass whose articles are all stored already left the timer alone
StallTimerResetWitness ==
  /\ pc = "loop" /\ calls.page_source = 2
  /\ start_time = SCROLL_PAUSE_TIME /\ now = 2 * SCROLL_PAUSE_TIME
  /\ tweets # <<>>
  /\ \A i \in DOMAIN tweets :
       Extracted[tweets[i]].url # None
       /\ ~Extracted[tweets[i]].raises
       /\ Extracted[tweets[i]].url \in UrlValues(tweet_df)

NotRaising(articles) == SelectSeq(articles, LAMBDA t : ~Extracted[t].raises)

\* C15: in a pass whose snapshot holds an article whose extraction raises,
\* nothing propagates, the other articles are merged as if the raising ones
\* were absent, and the stall check runs.
FragmentFailureAbsorbed ==
  [][(PassRan /\ \E i \in DOMAIN tweets' : Extracted[tweets'[i]].raises) =>
       /\ exc' = None
       /\ tweet_df' = Merge(tweet_df, new_tweet_data(NotRaising(tweets'), tweet_df))
       /\ \/ /\ pc' = "finally" /\ result' = Some(tweet_df')
             /\ Len(tweet_df'.rows) = prev_tweets_count
             /\ now' - start_time >= max_wait_time
          \/ /\ pc' = "loop" /\ result' = None
             /\ prev_tweets_count' = Len(tweet_df'.rows)]_vars

FragmentFailureAbsorbedWitness ==
  /\ pc = "loop" /\ calls.page_source = 1 /\ exc = None
  /\ Len(tweets) = 2
  /\ Extracted[tweets[1]].raises
  /\ ~Extracted[tweets[2]].raises
  /\ Rows = <<Extracted[tweets[2]].row>>
  /\ prev_tweets_count = 1

\* C16: a login or navigation step either succeeds, and the next step
\* follows, or its failure is in flight to the caller; no step is skipped.
LoginFailuresFatal ==
  [][(pc = "login") =>
       \/ pc' = "login" /\ step' = step + 1 /\ exc' = None
       \/ pc' = "init_loop" /\ step = Len(LoginSteps) /\ exc' = None
       \/ pc' = "finally" /\ step' = step /\ exc' = Some(LoginSteps[step])]_vars

\* C17: unless a call fails, url_scraper eventually returns.
Termination == <>(exc # None \/ (pc = "returned" /\ result # None))

\* the run returned later than max_wait_time after the loop started: the
\* pass that appended restarted the stall window
TerminationWitness ==
  /\ pc = "returned" /\ result # None /\ exc = None
  /\ now > max_wait_time + SCROLL_PAUSE_TIME

\* C18: the driver is quit exactly once in a call that created it, and no
\* session command follows the quit.
SingleRelease ==
  /\ [](quit_calls <= 1)
  /\ []((Done /\ driver # "none") => quit_calls = 1)
  /\ [](driver = "none" => quit_calls = 0)
  /\ [][(quit_calls >= 1) => calls' = calls]_vars

SingleReleaseWitness ==
  /\ pc = "returned" /\ driver = "quit" /\ quit_calls = 1
  /\ calls.scroll > 0 /\ calls.page_source > 0 /\ calls.get = 2

====
